---------------------------- MODULE Spec2Model ----------------------------
(***************************************************************************)
(* Model of the Redis / DragonflyDB benchmark scripts.                     *)
(*                                                                         *)
(*   src/benchmark.js lines 1-571    the batch report (runBenchmarks)      *)
(*   src/benchmark.js lines 573-825  the live dashboard (main / update)    *)
(*                                                                         *)
(* The servers and the ioredis client are the environment: a connect or a  *)
(* command either succeeds or is rejected, a SCAN reply carries cursor '0' *)
(* or a non-zero cursor, and time passes between any two steps.            *)
(* performance.now() is read in whole milliseconds; every awaited round    *)
(* trip takes at least one.                                                *)
(***************************************************************************)
EXTENDS Integers, Sequences, FiniteSets, TLC

VARIABLES
    \* ---- one scenario runner invocation (benchmark.js 45-285) ----
    rstate,        \* position of the runner's async function
    scenario,      \* which of the six runners is invoked
    port,          \* its port argument
    params,        \* its numeric arguments
    inv,           \* number of the invocation (1 for a runner on its own)
    connected,     \* createClients: connections established so far
    populated,     \* setup loop: keys / members written so far
    clients,       \* the async function of each pool client
    conns,         \* pool connections that are open
    closed,        \* disconnect() calls made by this invocation
    now,           \* performance.now(), relative to the invocation's entry
    start,         \* const start
    end,           \* const end
    result,        \* the object the runner returns
    measuredOps,   \* logical operations issued while the timer was running
    scanMore,      \* non-zero SCAN cursors the server has returned
    stalls,        \* long delays the environment has injected
    served,        \* mixed workload: repetitions of each client's pipeline
                   \* the server has executed
    errors,        \* error replies the servers have returned to the runners
    \* ---- the two servers ----
    store,         \* the keyspace of each endpoint
    \* ---- runBenchmarks (benchmark.js 473-571) ----
    pc,            \* position of runBenchmarks
    test,          \* number of the test being run, 1..6
    mainConns,     \* ports redisClient / dragonflyClient are connected to
    cpat,          \* cleanup: index of the pattern being scanned
    cstep,         \* cleanup: the command being awaited
    cmore,         \* cleanup: non-zero cursors returned for this pattern
    cursor,        \* cleanup: let cursor
    ckeys,         \* cleanup: the keys of the last SCAN reply
    redisResult,   \* the first half of the object literal being built
    results,       \* const results, in insertion order
    exitCode,      \* status passed to process.exit
    \* ---- printComparisonTable (benchmark.js 330-386) ----
    table,         \* the rows pushed to the table
    stats,         \* the object it returns
    runs,          \* calls made so far
    prevTable,     \* rows of the call before the last
    prevStats,     \* return value of the call before the last
    summary,       \* the speedup line printBlogSummary has printed
    \* ---- live dashboard (benchmark.js 573-825) ----
    lpc,           \* position of main
    lconns,        \* ports redis / dragonfly are connected to
    lnow,          \* performance.now(), relative to the first update() call
    intervalOn,    \* setInterval(update, 2000) is armed
    fires,         \* update() executions started so far
    updates,       \* update() executions in flight
    iteration,
    redisTotal,
    dragonflyTotal,
    redisWins,
    dragonflyWins,
    redisData,     \* points of the line chart, oldest first
    dragonflyData,
    rendered,      \* figures given to the stats table by the last render
    logLine        \* last line written to the activity log

runnerVars == <<rstate, scenario, port, params, inv, connected, populated,
                clients, conns, closed, now, start, end, result,
                measuredOps, scanMore, stalls, served, errors>>

batchVars == <<pc, test, mainConns, cpat, cstep, cmore, cursor, ckeys,
              redisResult, exitCode>>
cmpVars == <<results, table, stats, runs, prevTable, prevStats, summary>>
liveVars == <<lpc, lconns, lnow, intervalOn, fires, updates, iteration, redisTotal,
              dragonflyTotal, redisWins, dragonflyWins, redisData,
              dragonflyData, rendered, logLine>>

vars == <<runnerVars, batchVars, cmpVars, liveVars, store>>

\* what a step of a runner leaves alone
outside == <<batchVars, cmpVars, liveVars>>

----------------------------------------------------------------------------
\* Bounds of the model

MaxClients == 2
MaxIterations == 2
MaxKeys == 3
MaxBatchSize == 2
MaxStalls == 1
MaxScanMore == 1
\* the population loops write 5000 commands per pipeline (lines 53, 208);
\* the model scales that batch down so that several batches happen
PopulateBatch == 2
\* a delay long enough to round a throughput down to 0
LongDelay == 600000
\* times the environment misbehaves in one run: a long delay, or error
\* replies to the commands of a pipeline
MaxFaults == 1
\* repetitions of a mixed pipeline the server executes before it may turn to
\* another connection
ExecChunk == 25

----------------------------------------------------------------------------
\* Program constants

REDIS_PORT == 6379
DRAGONFLY_PORT == 6380
ScanRounds == 10
MixedReps == 50
MixedKinds == 5
MsPerSecond == 1000

NoTime == 0 - 1

Scenarios == {"scan", "keys", "info", "bulk", "zset", "mixed"}
Ports == {REDIS_PORT, DRAGONFLY_PORT}
Delays == {1, LongDelay}

----------------------------------------------------------------------------
\* Pure parts of the runners

\* Math.round of the non-negative rational num/den (den > 0): half rounds up
BadJsRound(num, den) == num \div den
JsRound(num, den) == (2 * num + den) \div (2 * den)

\* the commands one loop iteration of a client awaits, in order
ClientOps(scn) ==
    CASE scn = "scan"  -> <<"SCAN">>
      [] scn = "keys"  -> <<"KEYS">>
      [] scn = "info"  -> <<"INFO", "DBSIZE">>
      [] scn = "bulk"  -> <<"MSET", "MGET">>
      [] scn = "zset"  -> <<"ZREVRANGE", "ZRANGEBYSCORE", "ZCOUNT">>
      [] scn = "mixed" -> <<"EXEC">>

\* logical operations carried by one command when it is issued
OpWeight(scn, p) ==
    CASE scn = "scan"  -> 0
      [] scn = "bulk"  -> p.batchSize
      [] scn = "mixed" -> MixedReps * MixedKinds
      [] OTHER         -> 1

\* iterations of a client's outer loop
BadLoopCount(scn, p) == IF scn = "scan" THEN ScanRounds ELSE p.iterations + 1
LoopCount(scn, p) == IF scn = "scan" THEN ScanRounds ELSE p.iterations

\* connections the runner opens
PoolSize(scn, p) == IF scn = "bulk" THEN 1 ELSE p.numClients

\* keys / members the setup phase writes
SetupSize(scn, p) ==
    CASE scn = "scan" -> p.keysToCreate
      [] scn = "zset" -> p.setSize
      [] OTHER        -> 0

\* the totalOps expression of each runner
BadTotalOps(scn, p) ==
    CASE scn = "scan"  -> p.numClients * 10
      [] scn = "keys"  -> p.numClients * p.iterations
      [] scn = "info"  -> p.numClients * p.iterations * 2
      [] scn = "bulk"  -> p.iterations * p.batchSize * 2
      [] scn = "zset"  -> p.numClients * p.iterations * 3
      [] scn = "mixed" -> p.numClients * p.iterations * 50
TotalOps(scn, p) ==
    CASE scn = "scan"  -> p.numClients * 10
      [] scn = "keys"  -> p.numClients * p.iterations
      [] scn = "info"  -> p.numClients * p.iterations * 2
      [] scn = "bulk"  -> p.iterations * p.batchSize * 2
      [] scn = "zset"  -> p.numClients * p.iterations * 3
      [] scn = "mixed" -> p.numClients * p.iterations * 50 * 5

\* Math.round((totalOps / duration) * 1000), resp. line 83 for the scan runner
OpsPerSecond(totalOps, duration) == JsRound(totalOps * MsPerSecond, duration)

NoResult == [duration |-> NoTime, opsPerSecond |-> 0, totalOps |-> 0]

\* the argument lists a runner can be called with
ParamSets(scn) ==
    CASE scn = "scan" ->
           { [numClients |-> n, iterations |-> 0, keysToCreate |-> k,
              setSize |-> 0, batchSize |-> 0] :
             n \in 1..MaxClients, k \in 0..MaxKeys }
      [] scn \in {"keys", "info", "mixed"} ->
           { [numClients |-> n, iterations |-> i, keysToCreate |-> 0,
              setSize |-> 0, batchSize |-> 0] :
             n \in 1..MaxClients, i \in 1..MaxIterations }
      [] scn = "bulk" ->
           { [numClients |-> 0, iterations |-> i, keysToCreate |-> 0,
              setSize |-> 0, batchSize |-> b] :
             i \in 1..MaxIterations, b \in 1..MaxBatchSize }
      [] scn = "zset" ->
           { [numClients |-> n, iterations |-> i, keysToCreate |-> 0,
              setSize |-> k, batchSize |-> 0] :
             n \in 1..MaxClients, i \in 1..MaxIterations, k \in {0, MaxKeys} }

----------------------------------------------------------------------------
\* The keys the runners write and the commands they send

Key(prefix, name, idx) == [prefix |-> prefix, name |-> name, idx |-> idx]

\* `scan:key:${batch + i}`, line 56
ScanKey(i) == Key("scan", "key", <<i>>)
\* `bulk:${iter}:${i}`, line 173
BulkKey(iter, i) == Key("bulk", "", <<iter, i>>)
\* 'leaderboard:main', line 211
LeaderboardKey == Key("leaderboard", "main", <<>>)
\* `mixed:${clientIdx}:${p}:${i}`, line 261
MixedKey(c, p, i) == Key("mixed", "", <<c, p, i>>)
\* `counter:${clientIdx}`, line 264
BadCounterKey(c) == Key("counter", "", <<0>>)
CounterKey(c) == Key("counter", "", <<c>>)
\* `list:${clientIdx}`, line 265
ListKey(c) == Key("list", "", <<c>>)
\* `hash:${clientIdx}`, line 266
HashKey(c) == Key("hash", "", <<c>>)

\* a keyspace maps the keys that exist to their values
StringValue(n) == [type |-> "string", n |-> n, fields |-> {}]
ListValue(n) == [type |-> "list", n |-> n, fields |-> {}]
SetValue(type, fields) == [type |-> type, n |-> 0, fields |-> fields]
EmptyKeys == [k \in {} |-> StringValue(0)]

Put(s, k, v) == [x \in (DOMAIN s) \cup {k} |-> IF x = k THEN v ELSE s[x]]

\* the effect of the commands on a keyspace s
\* SET k value for every k in ks (MSET, or the SETs queued in a pipeline)
RedisSet(s, ks) == [x \in (DOMAIN s) \cup ks |-> IF x \in ks THEN StringValue(0) ELSE s[x]]
\* n times INCR k, n times LPUSH k item, HSET k f value for every f in fs
RedisIncr(s, k, n) == Put(s, k, StringValue((IF k \in DOMAIN s THEN s[k].n ELSE 0) + n))
RedisLPush(s, k, n) == Put(s, k, ListValue((IF k \in DOMAIN s THEN s[k].n ELSE 0) + n))
RedisHSet(s, k, fs) ==
    Put(s, k, SetValue("hash", (IF k \in DOMAIN s THEN s[k].fields ELSE {}) \cup fs))
RedisZAdd(s, k, ms) ==
    Put(s, k, SetValue("zset", (IF k \in DOMAIN s THEN s[k].fields ELSE {}) \cup ms))
RedisDel(s, ks) == [x \in (DOMAIN s) \ ks |-> s[x]]

\* the indexes `batch + i` of one population pipeline, lines 55 and 210
BadPopulateIndexes(batch, total) == {batch + i : i \in 0..(PopulateBatch - 1)}
PopulateIndexes(batch, total) ==
    {batch + i : i \in {j \in 0..(PopulateBatch - 1) : batch + j < total}}

\* the keyspace after one population pipeline has been executed
Populated(scn, s, batch, total) ==
    CASE scn = "scan" ->
           RedisSet(s, {ScanKey(i) : i \in PopulateIndexes(batch, total)})
      [] scn = "zset" ->
           IF PopulateIndexes(batch, total) = {} THEN s
           ELSE RedisZAdd(s, LeaderboardKey, PopulateIndexes(batch, total))
      [] OTHER -> s

\* the keyspace after repetitions lo .. hi-1 of pipeline p of client c have
\* been executed, lines 260-267
MixedApply(s, c, p, lo, hi) ==
    LET reps == lo..(hi - 1)
    IN  IF reps = {} THEN s
        ELSE RedisHSet(
               RedisLPush(
                 RedisIncr(
                   RedisSet(s, {MixedKey(c, p, i) : i \in reps}),
                   CounterKey(c), Cardinality(reps)),
                 ListKey(c), Cardinality(reps)),
               HashKey(c), reps)

\* the keyspace after the command a client awaits at (iter, step) has been
\* executed: MSET writes bulk:iter:0 .. bulk:iter:batchSize-1, lines 171-175
Executed(scn, p, c, s) ==
    IF scn = "bulk" /\ c.step = 1
    THEN RedisSet(s, {BulkKey(c.iter, i) : i \in 0..(p.batchSize - 1)})
    ELSE s

----------------------------------------------------------------------------
\* Timer and client helpers

TimerRunning == start # NoTime /\ end = NoTime
TimerStopped == end # NoTime

Idle == [iter |-> 0, step |-> 1, status |-> "idle"]

\* a client entering its loop: it issues its first command, if there is one
Entered(scn, p) ==
    IF LoopCount(scn, p) = 0
    THEN [iter |-> 0, step |-> 1, status |-> "done"]
    ELSE [iter |-> 0, step |-> 1, status |-> "inflight"]

\* the client after a successful reply to the command at (iter, step)
Advanced(scn, p, c) ==
    LET last == c.step = Len(ClientOps(scn))
        iter == IF last THEN c.iter + 1 ELSE c.iter
        step == IF last THEN 1 ELSE c.step + 1
    IN  IF iter = LoopCount(scn, p)
        THEN [iter |-> iter, step |-> 1, status |-> "done"]
        ELSE [iter |-> iter, step |-> step, status |-> "inflight"]

AllDone == \A i \in DOMAIN clients : clients[i].status = "done"

Counted(n) == IF TimerRunning THEN n ELSE 0

----------------------------------------------------------------------------
\* The runner, step by step

\* the state of a runner that has just been called
Invoked(scn, prt, p, k) ==
    /\ rstate = "create"
    /\ scenario = scn
    /\ port = prt
    /\ params = p
    /\ inv = k
    /\ connected = 0
    /\ populated = 0
    /\ clients = [i \in 1..PoolSize(scn, p) |-> Idle]
    /\ closed = 0
    /\ now = 0
    /\ start = NoTime
    /\ end = NoTime
    /\ result = NoResult
    /\ measuredOps = 0
    /\ scanMore = 0
    /\ served = [i \in 1..PoolSize(scn, p) |-> 0]

\* createClients, lines 24-32 (lines 162-163 for the bulk runner):
\* one `await client.connect()`
Connect ==
    /\ rstate = "create"
    /\ connected < PoolSize(scenario, params)
    /\ now' = now + 1
    /\ \/ /\ connected' = connected + 1
          /\ conns' = conns \cup {[inv |-> inv, idx |-> connected + 1, port |-> port]}
          /\ rstate' = IF connected + 1 = PoolSize(scenario, params)
                       THEN "setup" ELSE "create"
       \/ \* connect() rejects: createClients throws, the runner throws
          /\ rstate' = "failed"
          /\ UNCHANGED <<connected, conns>>
    /\ UNCHANGED outside
    /\ UNCHANGED <<served, errors, store>>
    /\ UNCHANGED <<scenario, port, params, inv, populated, clients, closed,
                   start, end, result, measuredOps, scanMore, stalls>>

\* the loop variable `batch` after one pass of the population loop
NextBatch(batch, total) ==
    IF batch + PopulateBatch < total THEN batch + PopulateBatch ELSE total

\* one pass of the population loop, lines 53-59 and 208-214:
\* a pipeline of up to PopulateBatch commands and `await pipeline.exec()`,
\* whose result array is not looked at
Populate ==
    /\ rstate = "setup"
    /\ populated < SetupSize(scenario, params)
    /\ now' = now + 1
    /\ \/ \* the server executes the commands
          /\ populated' = NextBatch(populated, SetupSize(scenario, params))
          /\ store' = [store EXCEPT ![port] =
                         Populated(scenario, @, populated, SetupSize(scenario, params))]
          /\ UNCHANGED <<rstate, errors>>
       \/ \* the server answers the commands with errors: exec() resolves
          \* with them in its result array
          /\ stalls + errors < MaxFaults
          /\ errors' = errors + 1
          /\ populated' = NextBatch(populated, SetupSize(scenario, params))
          /\ UNCHANGED <<rstate, store>>
       \/ \* exec() rejects
          /\ rstate' = "failed"
          /\ errors' = errors + 1
          /\ UNCHANGED <<populated, store>>
    /\ UNCHANGED outside
    /\ UNCHANGED served
    /\ UNCHANGED <<scenario, port, params, inv, connected, clients, conns,
                   closed, start, end, result, measuredOps, scanMore, stalls>>

\* the runner may take `start` once it has passed its setup code
BadCanStart == rstate = "setup"
CanStart ==
    /\ rstate = "setup"
    /\ populated = SetupSize(scenario, params)

\* `const start = performance.now()` and `clients.map(async ...)`: every
\* client runs to its first await, i.e. issues its first command
StartTimer ==
    /\ CanStart
    /\ start' = now
    /\ clients' = [i \in DOMAIN clients |-> Entered(scenario, params)]
    /\ measuredOps' = measuredOps
          + (IF LoopCount(scenario, params) = 0 THEN 0
             ELSE Cardinality(DOMAIN clients) * OpWeight(scenario, params))
    /\ rstate' = "measure"
    /\ UNCHANGED outside
    /\ UNCHANGED <<served, errors, store>>
    /\ UNCHANGED <<scenario, port, params, inv, connected, populated, conns,
                   closed, now, end, result, scanMore, stalls>>

\* the server executes the next repetitions of the pipeline client i sent
Exec(i) ==
    /\ scenario = "mixed"
    /\ clients[i].status = "inflight"
    /\ served[i] < MixedReps
    /\ LET hi == IF served[i] + ExecChunk < MixedReps
                 THEN served[i] + ExecChunk ELSE MixedReps
       IN  /\ \/ /\ store' = [store EXCEPT ![port] =
                                MixedApply(@, i - 1, clients[i].iter, served[i], hi)]
                 /\ UNCHANGED errors
              \/ \* the server answers these commands with errors
                 /\ stalls + errors < MaxFaults
                 /\ errors' = errors + 1
                 /\ UNCHANGED store
           /\ served' = [served EXCEPT ![i] = hi]
    /\ UNCHANGED outside
    /\ UNCHANGED <<rstate, scenario, port, params, inv, connected, populated,
                   clients, conns, closed, now, start, end, result, measuredOps,
                   scanMore, stalls>>

\* the server has answered every command client i is waiting for
Answered(i) == scenario = "mixed" => served[i] = MixedReps

\* a reply reaches client i, which resumes after its await; a pipeline's
\* exec() resolves whatever its commands were answered with
ReplyOk(i) ==
    /\ clients[i].status = "inflight"
    /\ Answered(i)
    /\ now' = now + 1
    /\ served' = [served EXCEPT ![i] = 0]
    /\ store' = [store EXCEPT ![port] = Executed(scenario, params, clients[i], @)]
    /\ UNCHANGED errors
    /\ LET c == Advanced(scenario, params, clients[i])
       IN  /\ clients' = [clients EXCEPT ![i] = c]
           /\ measuredOps' = measuredOps
                + (IF scenario = "scan" THEN Counted(1)
                   ELSE IF c.status = "inflight"
                        THEN Counted(OpWeight(scenario, params)) ELSE 0)
    /\ UNCHANGED outside
    /\ UNCHANGED <<rstate, scenario, port, params, inv, connected, populated,
                   conns, closed, start, end, result, scanMore, stalls>>

\* SCAN answers with a non-zero cursor: the do-while issues the next SCAN
ReplyMore(i) ==
    /\ scenario = "scan"
    /\ clients[i].status = "inflight"
    /\ scanMore < MaxScanMore
    /\ scanMore' = scanMore + 1
    /\ now' = now + 1
    /\ UNCHANGED outside
    /\ UNCHANGED <<served, errors, store>>
    /\ UNCHANGED <<rstate, scenario, port, params, inv, connected, populated,
                   clients, conns, closed, start, end, result, measuredOps,
                   stalls>>

\* the command of client i is rejected: its async function throws, and
\* Promise.all rejects if the runner is still waiting on it
ReplyError(i) ==
    /\ clients[i].status = "inflight"
    /\ now' = now + 1
    /\ clients' = [clients EXCEPT ![i].status = "failed"]
    /\ rstate' = IF rstate = "measure" THEN "failed" ELSE rstate
    /\ errors' = errors + 1
    /\ UNCHANGED outside
    /\ UNCHANGED <<served, store>>
    /\ UNCHANGED <<scenario, port, params, inv, connected, populated, conns,
                   closed, start, end, result, measuredOps, scanMore, stalls>>

\* Promise.all(promises) resolves once every client has finished
CanStop == rstate = "measure" /\ AllDone

\* `const end = performance.now()` and the figures computed from it
StopTimer ==
    /\ CanStop
    /\ end' = now
    /\ rstate' = "stopped"
    /\ UNCHANGED outside
    /\ UNCHANGED <<served, errors, store>>
    /\ UNCHANGED <<scenario, port, params, inv, connected, populated, clients,
                   conns, closed, now, start, result, measuredOps, scanMore,
                   stalls>>

\* the connections left open by closeClients(clients)
BadAfterClose(cs, k) == cs \ {c \in cs : c.inv = k /\ c.idx > 1}
AfterClose(cs, k) == cs \ {c \in cs : c.inv = k}

\* `await closeClients(clients)` (bulk: `await client.disconnect()`)
CloseClients ==
    /\ rstate = "stopped"
    /\ conns' = AfterClose(conns, inv)
    /\ closed' = closed + Cardinality(DOMAIN clients)
    /\ rstate' = "closed"
    /\ UNCHANGED outside
    /\ UNCHANGED <<served, errors, store>>
    /\ UNCHANGED <<scenario, port, params, inv, connected, populated, clients,
                   now, start, end, result, measuredOps, scanMore, stalls>>

\* the returned object { duration, opsPerSecond, totalOps }
Returned(scn, p, duration) ==
    [duration     |-> duration,
     opsPerSecond |-> OpsPerSecond(TotalOps(scn, p), duration),
     totalOps     |-> TotalOps(scn, p)]

Return ==
    /\ rstate = "closed"
    /\ result' = Returned(scenario, params, end - start)
    /\ rstate' = "returned"
    /\ UNCHANGED outside
    /\ UNCHANGED <<served, errors, store>>
    /\ UNCHANGED <<scenario, port, params, inv, connected, populated, clients,
                   conns, closed, now, start, end, measuredOps, scanMore,
                   stalls>>

\* the environment is slow for a while; a delay before `start` is taken
\* moves `start` and `end` alike, so only delays after it are modelled
Stall ==
    /\ rstate = "measure"
    /\ stalls < MaxStalls
    /\ stalls + errors < MaxFaults
    /\ stalls' = stalls + 1
    /\ \E d \in Delays : now' = now + d
    /\ UNCHANGED outside
    /\ UNCHANGED <<served, errors, store>>
    /\ UNCHANGED <<rstate, scenario, port, params, inv, connected, populated,
                   clients, conns, closed, start, end, result, measuredOps,
                   scanMore>>

RunnerStep ==
    \/ Connect
    \/ Populate
    \/ StartTimer
    \/ \E i \in DOMAIN clients : Exec(i)
    \/ \E i \in DOMAIN clients : ReplyOk(i)
    \/ \E i \in DOMAIN clients : ReplyMore(i)
    \/ \E i \in DOMAIN clients : ReplyError(i)
    \/ StopTimer
    \/ CloseClients
    \/ Return
    \/ Stall

----------------------------------------------------------------------------
\* the state of a runner that is being called now
Invoke(scn, prt, p, k) ==
    /\ rstate' = "create"
    /\ scenario' = scn
    /\ port' = prt
    /\ params' = p
    /\ inv' = k
    /\ connected' = 0
    /\ populated' = 0
    /\ clients' = [i \in 1..PoolSize(scn, p) |-> Idle]
    /\ closed' = 0
    /\ now' = 0
    /\ start' = NoTime
    /\ end' = NoTime
    /\ result' = NoResult
    /\ measuredOps' = 0
    /\ scanMore' = 0
    /\ served' = [i \in 1..PoolSize(scn, p) |-> 0]

----------------------------------------------------------------------------
\* printComparisonTable

\* a JavaScript number that is the quotient of two non-negative integers
NaN == [kind |-> "nan", num |-> 0, den |-> 0]
Infinity == [kind |-> "inf", num |-> 1, den |-> 0]
JsDiv(a, b) ==
    IF b # 0 THEN [kind |-> "fin", num |-> a, den |-> b]
    ELSE IF a = 0 THEN NaN ELSE Infinity

\* line 358
BadIsDragonflyWinner(data) == data.dragonfly.opsPerSecond >= data.redis.opsPerSecond
IsDragonflyWinner(data) == data.dragonfly.opsPerSecond > data.redis.opsPerSecond

\* line 360
BadRatio(data) == JsDiv(data.dragonfly.opsPerSecond, data.redis.opsPerSecond)
Ratio(data) ==
    IF IsDragonflyWinner(data)
    THEN JsDiv(data.dragonfly.opsPerSecond, data.redis.opsPerSecond)
    ELSE JsDiv(data.redis.opsPerSecond, data.dragonfly.opsPerSecond)

\* the row pushed for one entry of results, lines 374-380
Row(data) ==
    [operation    |-> data.operation,
     redisOps     |-> data.redis.opsPerSecond,
     dragonflyOps |-> data.dragonfly.opsPerSecond,
     winner       |-> IF IsDragonflyWinner(data) THEN "DragonflyDB" ELSE "Redis",
     ratio        |-> Ratio(data)]

\* lines 351-353: the counters are locals of the call
BadFreshCounters ==
    [table |-> <<>>, dragonflyWins |-> stats.dragonflyWins,
     redisWins |-> stats.redisWins, dragonflySpeedups |-> <<>>]
FreshCounters ==
    [table |-> <<>>, dragonflyWins |-> 0, redisWins |-> 0,
     dragonflySpeedups |-> <<>>]

\* the loop of lines 355-381, from entry i on
RECURSIVE CompareFrom(_, _, _)
CompareFrom(res, i, acc) ==
    IF i > Len(res) THEN acc
    ELSE LET data == res[i]
             won  == IsDragonflyWinner(data)
         IN  CompareFrom(res, i + 1,
               [table |-> Append(acc.table, Row(data)),
                dragonflyWins |-> IF won THEN acc.dragonflyWins + 1
                                  ELSE acc.dragonflyWins,
                redisWins |-> IF won THEN acc.redisWins
                              ELSE acc.redisWins + 1,
                dragonflySpeedups |-> IF won
                                      THEN Append(acc.dragonflySpeedups, Ratio(data))
                                      ELSE acc.dragonflySpeedups])

NoStats == [dragonflyWins |-> 0, redisWins |-> 0, dragonflySpeedups |-> <<>>,
            totalTests |-> 0]

\* a speedup in thousandths, for the sums of printBlogSummary
Milli(r) == (r.num \div r.den) * 1000 + ((r.num % r.den) * 1000) \div r.den

RECURSIVE SumMilli(_, _)
SumMilli(list, i) == IF i > Len(list) THEN 0 ELSE Milli(list[i]) + SumMilli(list, i + 1)

HasInfinity(list) == \E i \in DOMAIN list : list[i].kind = "inf"

\* line 441: reduce((a, b) => a + b, 0) / length
Mean(list) ==
    IF HasInfinity(list) THEN Infinity
    ELSE JsDiv(SumMilli(list, 1), 1000 * Len(list))

\* a / b <= c / d for positive b and d, by the integer parts and then the
\* reciprocals of the fractional parts
RECURSIVE AtMost(_, _, _, _)
AtMost(a, b, c, d) ==
    IF a \div b # c \div d THEN a \div b < c \div d
    ELSE IF a % b = 0 THEN TRUE
    ELSE IF c % d = 0 THEN FALSE
    ELSE AtMost(d, c % d, b, a % b)

\* line 442: Math.max(...list), which is -Infinity for an empty list
MinusInfinity == [kind |-> "-inf", num |-> 0 - 1, den |-> 0]
MaxOf(list) ==
    IF Len(list) = 0 THEN MinusInfinity
    ELSE IF HasInfinity(list) THEN Infinity
    ELSE CHOOSE r \in {list[i] : i \in DOMAIN list} :
           \A i \in DOMAIN list : AtMost(list[i].num, list[i].den, r.num, r.den)

NoSummary == [printed |-> FALSE, avgSpeedup |-> NaN, maxSpeedup |-> NaN]

\* printBlogSummary, lines 440-444
BadBlogSummary(st) ==
    [printed |-> TRUE, avgSpeedup |-> Mean(st.dragonflySpeedups),
     maxSpeedup |-> MaxOf(st.dragonflySpeedups)]
BlogSummary(st) ==
    IF Len(st.dragonflySpeedups) > 0
    THEN [printed |-> TRUE, avgSpeedup |-> Mean(st.dragonflySpeedups),
          maxSpeedup |-> MaxOf(st.dragonflySpeedups)]
    ELSE NoSummary

\* one call of printComparisonTable(results)
PrintComparisonTable ==
    LET acc == CompareFrom(results, 1, FreshCounters)
    IN  /\ table' = acc.table
        /\ stats' = [dragonflyWins |-> acc.dragonflyWins,
                     redisWins |-> acc.redisWins,
                     dragonflySpeedups |-> acc.dragonflySpeedups,
                     totalTests |-> Len(results)]
        /\ prevTable' = table
        /\ prevStats' = stats
        /\ runs' = runs + 1

----------------------------------------------------------------------------
\* runBenchmarks

\* the six tests in the order runBenchmarks runs them
Order == <<"scan", "keys", "info", "bulk", "zset", "mixed">>

\* the arguments of lines 506-552, scaled down: the source passes
\* (8, 100000), (8, 20), (10, 100), (500, 50), (100000, 6, 100), (10, 100)
BatchParams(s) ==
    CASE s = "scan"  -> [numClients |-> 2, iterations |-> 0, keysToCreate |-> 3,
                         setSize |-> 0, batchSize |-> 0]
      [] s = "keys"  -> [numClients |-> 2, iterations |-> 1, keysToCreate |-> 0,
                         setSize |-> 0, batchSize |-> 0]
      [] s = "info"  -> [numClients |-> 2, iterations |-> 1, keysToCreate |-> 0,
                         setSize |-> 0, batchSize |-> 0]
      [] s = "bulk"  -> [numClients |-> 0, iterations |-> 1, keysToCreate |-> 0,
                         setSize |-> 0, batchSize |-> 2]
      [] s = "zset"  -> [numClients |-> 2, iterations |-> 1, keysToCreate |-> 0,
                         setSize |-> 3, batchSize |-> 0]
      [] s = "mixed" -> [numClients |-> 2, iterations |-> 1, keysToCreate |-> 0,
                         setSize |-> 0, batchSize |-> 0]

\* cleanup(client), line 289
\* (each pattern `prefix:*` is given by its prefix)
BadPatterns == <<"scan", "bulk", "leaderboard", "mixed", "counter", "list">>
Patterns == <<"scan", "bulk", "leaderboard", "mixed", "counter", "list", "hash">>

NoExit == 0 - 1

\* lines 482-494: `await redisClient.connect()`, `await dragonflyClient.connect()`
ConnectMain ==
    /\ pc \in {"connectRedis", "connectDragonfly"}
    /\ \/ /\ mainConns' = mainConns \cup
                 {IF pc = "connectRedis" THEN REDIS_PORT ELSE DRAGONFLY_PORT}
          /\ pc' = IF pc = "connectRedis" THEN "connectDragonfly" ELSE "cleanRedis"
          /\ UNCHANGED exitCode
       \/ \* catch: process.exit(1)
          /\ pc' = "exited"
          /\ exitCode' = 1
          /\ UNCHANGED mainConns
    /\ cpat' = 1
    /\ cstep' = "scan"
    /\ cmore' = 0
    /\ UNCHANGED <<test, redisResult, cursor, ckeys>>
    /\ UNCHANGED <<runnerVars, cmpVars, liveVars, store>>

Cleaning == pc \in {"cleanRedis", "cleanDragonfly", "finalRedis", "finalDragonfly"}

\* what runBenchmarks does when a cleanup(client) call returns
AfterCleanup ==
    CASE pc = "cleanRedis"     -> /\ pc' = "cleanDragonfly"
                                  /\ UNCHANGED <<runnerVars, mainConns>>
      [] pc = "cleanDragonfly" -> \* line 506: the first runner is called
                                  /\ pc' = "run"
                                  /\ Invoke(Order[1], REDIS_PORT, BatchParams(Order[1]), 1)
                                  /\ UNCHANGED <<conns, stalls, errors, mainConns>>
      [] pc = "finalRedis"     -> /\ pc' = "finalDragonfly"
                                  /\ UNCHANGED <<runnerVars, mainConns>>
      [] pc = "finalDragonfly" -> \* lines 564-565: both clients disconnect
                                  /\ pc' = "done"
                                  /\ mainConns' = {}
                                  /\ UNCHANGED runnerVars

\* the endpoint cleanup(client) is called on
CleanupPort == IF pc \in {"cleanRedis", "finalRedis"} THEN REDIS_PORT ELSE DRAGONFLY_PORT

\* the keys of keyspace s that match `prefix:*`
Matching(s, prefix) == {k \in DOMAIN s : k.prefix = prefix}

\* the pages a SCAN reply can carry when the keys in m match: any part of
\* them (here none of them, one of them or all)
Pages(m) == {{}, m} \cup (IF m = {} THEN {} ELSE {{CHOOSE k \in m : TRUE}})

\* `while (cursor !== '0')`, line 298, and `for (const pattern of patterns)`
CleanupLoop(cur) ==
    IF cur # "0"
    THEN UNCHANGED <<pc, cpat, cmore, runnerVars, mainConns>>
    ELSE IF cpat < Len(Patterns)
    THEN /\ cpat' = cpat + 1
         /\ cmore' = 0
         /\ UNCHANGED <<pc, runnerVars, mainConns>>
    ELSE /\ cpat' = 1
         /\ cmore' = 0
         /\ AfterCleanup

\* cleanup, line 293: the reply to `await client.scan(cursor, 'MATCH', pattern, ...)`
\* carries a page of matching keys and cursor '0' or another one; a scan that
\* ends with cursor '0' has returned every key that was there throughout
CleanupScan ==
    /\ Cleaning
    /\ cstep = "scan"
    /\ \E page \in Pages(Matching(store[CleanupPort], Patterns[cpat])) :
       \E cur \in {"0", "next"} :
          /\ cur = "0" => page = Matching(store[CleanupPort], Patterns[cpat])
          /\ cur # "0" => cmore < MaxScanMore
          /\ cursor' = cur
          /\ ckeys' = page
          /\ IF page # {}
             THEN /\ cstep' = "del"
                  /\ cmore' = IF cur = "0" THEN cmore ELSE cmore + 1
                  /\ UNCHANGED <<pc, cpat, runnerVars, mainConns>>
             ELSE IF cur # "0"
             THEN /\ cmore' = cmore + 1
                  /\ UNCHANGED <<pc, cpat, cstep, runnerVars, mainConns>>
             ELSE /\ UNCHANGED cstep
                  /\ CleanupLoop(cur)
    /\ UNCHANGED <<test, redisResult, exitCode>>
    /\ UNCHANGED <<cmpVars, liveVars, store>>

\* cleanup, line 296: the reply to `await client.del(...keys)`
CleanupDel ==
    /\ Cleaning
    /\ cstep = "del"
    /\ store' = [store EXCEPT ![CleanupPort] = RedisDel(@, ckeys)]
    /\ cstep' = "scan"
    /\ CleanupLoop(cursor)
    /\ UNCHANGED <<cursor, ckeys>>
    /\ UNCHANGED <<test, redisResult, exitCode>>
    /\ UNCHANGED <<cmpVars, liveVars>>

\* a command of cleanup is rejected: runBenchmarks rejects
CleanupError ==
    /\ Cleaning
    /\ pc' = "rejected"
    /\ UNCHANGED <<test, mainConns, cpat, cstep, cmore, cursor, ckeys,
                   redisResult, exitCode>>
    /\ UNCHANGED <<runnerVars, cmpVars, liveVars, store>>

\* the Redis runner has returned: the Dragonfly runner of the same test is called
CollectRedis ==
    /\ pc = "run"
    /\ rstate = "returned"
    /\ port = REDIS_PORT
    /\ redisResult' = result
    /\ Invoke(Order[test], DRAGONFLY_PORT, BatchParams(Order[test]), inv + 1)
    /\ UNCHANGED <<conns, stalls, errors, store>>
    /\ UNCHANGED <<pc, test, mainConns, cpat, cstep, cmore, cursor, ckeys, exitCode>>
    /\ UNCHANGED <<cmpVars, liveVars>>

\* the Dragonfly runner has returned: results[...] = { redis, dragonfly }, and
\* the next test starts
CollectDragonfly ==
    /\ pc = "run"
    /\ rstate = "returned"
    /\ port = DRAGONFLY_PORT
    /\ results' = Append(results, [operation |-> Order[test],
                                   redis |-> redisResult,
                                   dragonfly |-> result])
    /\ redisResult' = NoResult
    /\ IF test < Len(Order)
       THEN /\ test' = test + 1
            /\ Invoke(Order[test + 1], REDIS_PORT, BatchParams(Order[test + 1]), inv + 1)
            /\ UNCHANGED <<pc, conns, stalls, errors>>
       ELSE /\ pc' = "print"
            /\ rstate' = "idle"
            /\ UNCHANGED <<test, scenario, port, params, inv, connected, populated,
                           clients, conns, closed, now, start, end, result,
                           measuredOps, scanMore, stalls, served, errors>>
    /\ UNCHANGED <<mainConns, cpat, cstep, cmore, cursor, ckeys, exitCode>>
    /\ UNCHANGED <<table, stats, runs, prevTable, prevStats, summary>>
    /\ UNCHANGED <<liveVars, store>>

\* a runner has thrown: runBenchmarks rejects and console.error prints
RunnerThrew ==
    /\ pc = "run"
    /\ rstate = "failed"
    /\ pc' = "rejected"
    /\ UNCHANGED <<test, mainConns, cpat, cstep, cmore, cursor, ckeys,
                   redisResult, exitCode>>
    /\ UNCHANGED <<runnerVars, cmpVars, liveVars, store>>

\* lines 556-561: the report is printed and the final cleanup starts
PrintResults ==
    /\ pc = "print"
    /\ PrintComparisonTable
    /\ summary' = BlogSummary(stats')
    /\ pc' = "finalRedis"
    /\ UNCHANGED results
    /\ UNCHANGED <<test, mainConns, cpat, cstep, cmore, cursor, ckeys,
                   redisResult, exitCode>>
    /\ UNCHANGED <<runnerVars, liveVars, store>>

BatchStep ==
    \/ ConnectMain
    \/ CleanupScan
    \/ CleanupDel
    \/ CleanupError
    \/ CollectRedis
    \/ CollectDragonfly
    \/ RunnerThrew
    \/ PrintResults

----------------------------------------------------------------------------
\* The live dashboard: quickBenchmark, main, update

NumOps == 10000
\* "Keep last 20 data points" (line 755), scaled down so that the chart fills up
ChartPoints == 2
MaxFires == 3

\* setInterval(update, 2000), line 814
Interval == 2000

\* the time a server takes over one quickBenchmark pipeline, in ms
LiveDurations == {40, 50, 2500}

\* quickBenchmark's return value for a pipeline that took d ms, line 605
QuickBenchmark(d) == JsRound(NumOps * MsPerSecond, d)

Line(kind, n) == [kind |-> kind, n |-> n]
NoRender == [redisOps |-> -1, dragonflyOps |-> -1, redisAvg |-> -1,
             dragonflyAvg |-> -1, redisWins |-> 0, dragonflyWins |-> 0]

\* the time the pipeline sent at time t on the connection of `stage` is
\* answered when the server takes d ms over it: a connection answers in the
\* order it was asked
Due(stage, t, d) ==
    LET before == {u.due : u \in {v \in updates : v.stage = stage}}
        late   == {x \in before : x > t + d}
    IN  IF late = {} THEN t + d
        ELSE CHOOSE x \in late : \A y \in late : y <= x

\* a call of update() at time t: lines 726-732 run up to the first await,
\* `sent` is quickBenchmark's `start`
Started(id, t, due) ==
    [id |-> id, stage |-> "redis", redisOps |-> 0, sent |-> t, due |-> due]

\* both pipelines of an update travel on connections used first come first served
Oldest(u) == \A v \in updates : v.stage = u.stage => u.id <= v.id

\* the time of the next call by the interval timer
NextFire == fires * Interval
TimerArmed == intervalOn /\ fires < MaxFires

\* the reply u waits for is the next thing to happen
IsNext(u) ==
    /\ Oldest(u)
    /\ \A v \in updates : u.due <= v.due
    /\ TimerArmed => u.due <= NextFire

\* lines 695-712: `await redis.connect()`, `await dragonfly.connect()`; on
\* success main goes on to line 813, update(), and line 814, setInterval
ConnectLive ==
    /\ lpc \in {"connectRedis", "connectDragonfly"}
    /\ \/ /\ lpc = "connectRedis"
          /\ lpc' = "connectDragonfly"
          /\ lconns' = lconns \cup {REDIS_PORT}
          /\ UNCHANGED <<intervalOn, fires, updates, logLine>>
       \/ /\ lpc = "connectDragonfly"
          /\ lpc' = "running"
          /\ lconns' = lconns \cup {DRAGONFLY_PORT}
          /\ intervalOn' = TRUE
          /\ fires' = 1
          /\ \E d \in LiveDurations : updates' = {Started(1, 0, d)}
          /\ logLine' = Line("running", iteration + 1)
       \/ \* catch: the error is logged and main returns
          /\ lpc' = "noconn"
          /\ logLine' = Line("connect error", 0)
          /\ UNCHANGED <<lconns, intervalOn, fires, updates>>
    /\ UNCHANGED <<lnow, iteration, redisTotal, dragonflyTotal, redisWins,
                   dragonflyWins, redisData, dragonflyData, rendered>>
    /\ UNCHANGED <<runnerVars, batchVars, cmpVars, store>>

\* the interval timer calls update(); replies due earlier have arrived
TimerFire ==
    /\ lpc = "running"
    /\ TimerArmed
    /\ \A v \in updates : NextFire <= v.due
    /\ lnow' = NextFire
    /\ fires' = fires + 1
    /\ \E d \in LiveDurations :
          updates' = updates \cup
                       {Started(fires + 1, NextFire, Due("redis", NextFire, d))}
    /\ logLine' = Line("running", iteration + 1)
    /\ UNCHANGED <<lpc, lconns, intervalOn, iteration, redisTotal,
                   dragonflyTotal, redisWins, dragonflyWins, redisData,
                   dragonflyData, rendered>>
    /\ UNCHANGED <<runnerVars, batchVars, cmpVars, store>>

\* line 732 resumes: quickBenchmark(redis) returned, quickBenchmark(dragonfly)
\* sends its pipeline
RedisDone(u) ==
    /\ lpc = "running"
    /\ u.stage = "redis"
    /\ IsNext(u)
    /\ lnow' = u.due
    /\ \E d \in LiveDurations :
          updates' = (updates \ {u}) \cup
                       {[u EXCEPT !.stage = "dragonfly",
                                  !.redisOps = QuickBenchmark(u.due - u.sent),
                                  !.sent = u.due,
                                  !.due = Due("dragonfly", u.due, d)]}
    /\ UNCHANGED <<lpc, lconns, intervalOn, fires, iteration, redisTotal,
                   dragonflyTotal, redisWins, dragonflyWins, redisData,
                   dragonflyData, rendered, logLine>>
    /\ UNCHANGED <<runnerVars, batchVars, cmpVars, store>>

\* line 739
DragonflyWon(redisOps, dragonflyOps) == dragonflyOps > redisOps

\* lines 755-760
BadKept(data) == data
Kept(data) == IF Len(data) > ChartPoints THEN Tail(data) ELSE data

\* line 733 resumes: lines 735-789 run to the end
DragonflyDone(u) ==
    /\ lpc = "running"
    /\ u.stage = "dragonfly"
    /\ IsNext(u)
    /\ lnow' = u.due
    /\ LET redisOps     == u.redisOps
           dragonflyOps == QuickBenchmark(u.due - u.sent)
           won          == DragonflyWon(redisOps, dragonflyOps)
       IN  /\ iteration' = iteration + 1
           /\ redisTotal' = redisTotal + redisOps
           /\ dragonflyTotal' = dragonflyTotal + dragonflyOps
           /\ dragonflyWins' = IF won THEN dragonflyWins + 1 ELSE dragonflyWins
           /\ redisWins' = IF won THEN redisWins ELSE redisWins + 1
           /\ logLine' = IF won THEN Line("Dragonfly wins!", 0)
                         ELSE Line("Redis wins!", 0)
           /\ redisData' = Kept(Append(redisData,
                              [x |-> iteration', y |-> JsDiv(redisOps, 1000)]))
           /\ dragonflyData' = Kept(Append(dragonflyData,
                              [x |-> iteration', y |-> JsDiv(dragonflyOps, 1000)]))
           /\ rendered' =
                [redisOps      |-> redisOps,
                 dragonflyOps  |-> dragonflyOps,
                 redisAvg      |-> JsRound(redisTotal', iteration' * 1000),
                 dragonflyAvg  |-> JsRound(dragonflyTotal', iteration' * 1000),
                 redisWins     |-> redisWins',
                 dragonflyWins |-> dragonflyWins']
    /\ updates' = updates \ {u}
    /\ UNCHANGED <<lpc, lconns, intervalOn, fires>>
    /\ UNCHANGED <<runnerVars, batchVars, cmpVars, store>>

\* `await pipeline.exec()` rejects inside quickBenchmark: lines 790-792
UpdateError(u) ==
    /\ lpc = "running"
    /\ IsNext(u)
    /\ lnow' = u.due
    /\ updates' = updates \ {u}
    /\ logLine' = Line("error", 0)
    /\ UNCHANGED <<lpc, lconns, intervalOn, fires, iteration, redisTotal,
                   dragonflyTotal, redisWins, dragonflyWins, redisData,
                   dragonflyData, rendered>>
    /\ UNCHANGED <<runnerVars, batchVars, cmpVars, store>>

\* the quit key: lines 708-710 and 817-822
Quit ==
    /\ lpc \in {"running", "noconn"}
    /\ lpc' = "exited"
    /\ intervalOn' = FALSE
    /\ lconns' = {}
    /\ updates' = {}
    /\ UNCHANGED <<lnow, fires, iteration, redisTotal, dragonflyTotal, redisWins,
                   dragonflyWins, redisData, dragonflyData, rendered, logLine>>
    /\ UNCHANGED <<runnerVars, batchVars, cmpVars, store>>

LiveStep ==
    \/ ConnectLive
    \/ TimerFire
    \/ \E u \in updates : RedisDone(u)
    \/ \E u \in updates : DragonflyDone(u)
    \/ \E u \in updates : UpdateError(u)
    \/ Quit

----------------------------------------------------------------------------
\* Initial values of the parts a specification does not run

RunnerIdle ==
    /\ rstate = "idle"
    /\ scenario = "scan"
    /\ port = REDIS_PORT
    /\ params = BatchParams("scan")
    /\ inv = 0
    /\ connected = 0
    /\ populated = 0
    /\ clients = <<>>
    /\ conns = {}
    /\ closed = 0
    /\ now = 0
    /\ start = NoTime
    /\ end = NoTime
    /\ result = NoResult
    /\ measuredOps = 0
    /\ scanMore = 0
    /\ stalls = 0
    /\ served = <<>>
    /\ errors = 0

BatchIdle ==
    /\ pc = "idle"
    /\ test = 1
    /\ mainConns = {}
    /\ cpat = 1
    /\ cstep = "scan"
    /\ cmore = 0
    /\ cursor = "0"
    /\ ckeys = {}
    /\ redisResult = NoResult
    /\ exitCode = NoExit

CompareIdle ==
    /\ table = <<>>
    /\ stats = NoStats
    /\ runs = 0
    /\ prevTable = <<>>
    /\ prevStats = NoStats
    /\ summary = NoSummary

LiveIdle ==
    /\ lpc = "idle"
    /\ lconns = {}
    /\ lnow = 0
    /\ intervalOn = FALSE
    /\ fires = 0
    /\ updates = {}
    /\ iteration = 0
    /\ redisTotal = 0
    /\ dragonflyTotal = 0
    /\ redisWins = 0
    /\ dragonflyWins = 0
    /\ redisData = <<>>
    /\ dragonflyData = <<>>
    /\ rendered = NoRender
    /\ logLine = Line("", 0)

----------------------------------------------------------------------------
\* A runner called on its own, with any argument list

InitRunner ==
    /\ \E s \in Scenarios : \E prt \in Ports : \E p \in ParamSets(s) :
          Invoked(s, prt, p, 1)
    /\ conns = {}
    /\ stalls = 0
    /\ errors = 0
    /\ store = [e \in Ports |-> EmptyKeys]
    /\ BatchIdle
    /\ results = <<>>
    /\ CompareIdle
    /\ LiveIdle

SpecRunner == InitRunner /\ [][RunnerStep]_vars

\* The batch report: `npm run benchmark`

\* keys an earlier, interrupted run has left on an endpoint
Leftover ==
    RedisIncr(RedisHSet(RedisSet(EmptyKeys, {ScanKey(MaxKeys + 1)}), HashKey(0), {0}),
              CounterKey(0), 1)

Init ==
    /\ RunnerIdle
    /\ pc = "connectRedis"
    /\ test = 1
    /\ mainConns = {}
    /\ cpat = 1
    /\ cstep = "scan"
    /\ cmore = 0
    /\ cursor = "0"
    /\ ckeys = {}
    /\ redisResult = NoResult
    /\ exitCode = NoExit
    /\ store \in [Ports -> {EmptyKeys, Leftover}]
    /\ results = <<>>
    /\ CompareIdle
    /\ LiveIdle

Next == BatchStep \/ RunnerStep

Spec == Init /\ [][Next]_vars

\* The live dashboard: `npm run dashboard`

InitLive ==
    /\ RunnerIdle
    /\ store = [e \in Ports |-> EmptyKeys]
    /\ BatchIdle
    /\ results = <<>>
    /\ CompareIdle
    /\ lpc = "connectRedis"
    /\ lconns = {}
    /\ lnow = 0
    /\ intervalOn = FALSE
    /\ fires = 0
    /\ updates = {}
    /\ iteration = 0
    /\ redisTotal = 0
    /\ dragonflyTotal = 0
    /\ redisWins = 0
    /\ dragonflyWins = 0
    /\ redisData = <<>>
    /\ dragonflyData = <<>>
    /\ rendered = NoRender
    /\ logLine = Line("", 0)

SpecLive == InitLive /\ [][LiveStep]_vars

\* printComparisonTable called on any results the runners can return

MaxEntries == 2
MaxRuns == 2
SampleDurations == {3, 5, 20, LongDelay}

\* the entry of results for test s when the two runs took dr and dd ms
Entry(s, dr, dd) ==
    [operation |-> s,
     redis     |-> Returned(s, BatchParams(s), dr),
     dragonfly |-> Returned(s, BatchParams(s), dd)]

InitCompare ==
    /\ RunnerIdle
    /\ store = [e \in Ports |-> EmptyKeys]
    /\ BatchIdle
    /\ \E n \in 0..MaxEntries :
       \E dr \in [1..n -> SampleDurations] :
       \E dd \in [1..n -> SampleDurations] :
          results = [i \in 1..n |-> Entry(Order[i], dr[i], dd[i])]
    /\ CompareIdle
    /\ LiveIdle

Compare ==
    /\ pc = "idle"
    /\ lpc = "idle"
    /\ runs < MaxRuns
    /\ PrintComparisonTable
    /\ summary' = BlogSummary(stats')
    /\ UNCHANGED results
    /\ UNCHANGED <<runnerVars, batchVars, liveVars, store>>

SpecCompare == InitCompare /\ [][Compare]_vars

\* Winner selection in both programs: the report of one test is printed,
\* then the dashboard is started

InitWin == InitCompare /\ Len(results) = 1

LaunchDashboard ==
    /\ pc = "idle"
    /\ lpc = "idle"
    /\ runs >= 1
    /\ lpc' = "connectRedis"
    /\ UNCHANGED <<lconns, lnow, intervalOn, fires, updates, iteration,
                   redisTotal, dragonflyTotal, redisWins, dragonflyWins,
                   redisData, dragonflyData, rendered, logLine>>
    /\ UNCHANGED <<runnerVars, batchVars, cmpVars, store>>

SpecWin == InitWin /\ [][Compare \/ LaunchDashboard \/ LiveStep]_vars

----------------------------------------------------------------------------
\* Claims about a single runner invocation (SpecRunner)

Finished == rstate = "returned"

\* C1: the totalOps a runner returns is its scenario's formula: concurrent
\* scan N*10, KEYS pattern N*I, memory info N*I*2, bulk MSET/MGET I*B*2,
\* sorted-set queries N*I*3, pipelined mixed N*P*50*5 (N=10, P=100: 250,000)
C1_TotalOpsFormula ==
    /\ Finished =>
         LET N == params.numClients
             I == params.iterations
             B == params.batchSize
         IN  /\ scenario = "scan"  => result.totalOps = N * ScanRounds
             /\ scenario = "keys"  => result.totalOps = N * I
             /\ scenario = "info"  => result.totalOps = 2 * (N * I)
             /\ scenario = "bulk"  => result.totalOps = 2 * (I * B)
             /\ scenario = "zset"  => result.totalOps = 3 * (N * I)
             /\ scenario = "mixed" => result.totalOps = N * I * MixedReps * MixedKinds
    /\ Returned("mixed", [numClients |-> 10, iterations |-> 100, keysToCreate |-> 0,
                          setSize |-> 0, batchSize |-> 0], 1).totalOps = 250000

C1_Witness ==
    /\ Finished
    /\ scenario = "mixed"
    /\ params.numClients = 2
    /\ params.iterations = 2
    /\ result.totalOps = 1000

\* C2: when a runner returns normally, the logical operations it issued while
\* its timer was running are exactly the totalOps it returns
C2_IssuedEqualsTotalOps == Finished => measuredOps = result.totalOps

C2_Witness ==
    /\ Finished
    /\ scenario = "scan"
    /\ params.numClients = 2
    /\ scanMore = 1
    /\ measuredOps = 20

\* C3 as stated: opsPerSecond is exactly totalOps over the duration in seconds
C3_ThroughputExact ==
    Finished => result.opsPerSecond * result.duration = result.totalOps * MsPerSecond

\* C3 amended: opsPerSecond is totalOps over the duration in seconds rounded
\* to the nearest integer, halves rounded up (Math.round)
C3_ThroughputRounded ==
    Finished =>
      /\ result.duration > 0
      /\ 2 * result.totalOps * MsPerSecond - result.duration
           < 2 * result.opsPerSecond * result.duration
      /\ 2 * result.opsPerSecond * result.duration
           <= 2 * result.totalOps * MsPerSecond + result.duration

C3_Witness ==
    /\ Finished
    /\ result.duration = 3
    /\ result.totalOps = 2
    /\ result.opsPerSecond = 667

\* C8: the timer is started only after pool creation and population are
\* complete, and is stopped only after every client has received its last
\* result and before any connection of the pool is closed
C8_TimerBoundary ==
    /\ TimerRunning =>
         /\ connected = PoolSize(scenario, params)
         /\ populated = SetupSize(scenario, params)
         /\ Cardinality({c \in conns : c.inv = inv}) = PoolSize(scenario, params)
         /\ closed = 0
    /\ TimerStopped => \A i \in DOMAIN clients : clients[i].status = "done"
    /\ closed > 0 => TimerStopped

C8_Witness ==
    /\ Finished
    /\ scenario = "scan"
    /\ params.numClients = 2
    /\ params.keysToCreate = 3
    /\ populated = 3
    /\ closed = 2
    /\ result.duration >= 20

\* C10: once an invocation has ended, by returning or by throwing, none of
\* the connections it opened is still open
C10_PoolClosedAtEnd ==
    rstate \in {"returned", "failed"} => \A c \in conns : c.inv # inv

----------------------------------------------------------------------------
\* Claims about printComparisonTable and the dashboard's win counting

Rows == {table[i] : i \in DOMAIN table}
TiedRows == {i \in DOMAIN table : table[i].dragonflyOps = table[i].redisOps}

\* C4: with different throughputs the endpoint with the strictly greater one
\* is the winner and the ratio is the larger throughput over the smaller;
\* 100 against 400 gives the second endpoint with ratio 4.0
C4_WinnerAndRatio ==
    \A r \in Rows :
      /\ r.dragonflyOps > r.redisOps =>
           r.winner = "DragonflyDB" /\ r.ratio = JsDiv(r.dragonflyOps, r.redisOps)
      /\ r.redisOps > r.dragonflyOps =>
           r.winner = "Redis" /\ r.ratio = JsDiv(r.redisOps, r.dragonflyOps)
      /\ (r.redisOps = 100 /\ r.dragonflyOps = 400) =>
           /\ r.winner = "DragonflyDB"
           /\ r.ratio.kind = "fin"
           /\ r.ratio.num = 4 * r.ratio.den

C4_Witness ==
    \E r \in Rows :
      /\ r.redisOps = 100
      /\ r.dragonflyOps = 400
      /\ r.winner = "DragonflyDB"

WinLines == {"Dragonfly wins!", "Redis wins!"}
LiveTie == logLine.kind \in WinLines /\ rendered.redisOps = rendered.dragonflyOps

\* C5 as stated: with equal throughputs the second endpoint, DragonflyDB, is
\* favoured, in the report and in the dashboard
C5_TiesFavourSecond ==
    /\ \A i \in TiedRows : table[i].winner = "DragonflyDB"
    /\ LiveTie => logLine.kind = "Dragonfly wins!"

\* C5 amended: with equal throughputs the first endpoint, Redis, is named the
\* winner and gets the win, in the report and in the dashboard
C5_TiesFavourFirst ==
    /\ \A i \in TiedRows : table[i].winner = "Redis"
    /\ runs > 0 =>
         /\ stats.redisWins =
              Cardinality({i \in DOMAIN table : table[i].dragonflyOps <= table[i].redisOps})
         /\ stats.dragonflyWins =
              Cardinality({i \in DOMAIN table : table[i].dragonflyOps > table[i].redisOps})
         /\ Len(stats.dragonflySpeedups) = stats.dragonflyWins
    /\ LiveTie => logLine.kind = "Redis wins!"
    /\ Len(redisData) = iteration =>
         /\ redisWins =
              Cardinality({i \in DOMAIN redisData :
                             dragonflyData[i].y.num <= redisData[i].y.num})
         /\ dragonflyWins =
              Cardinality({i \in DOMAIN redisData :
                             dragonflyData[i].y.num > redisData[i].y.num})

C5_Witness ==
    /\ TiedRows # {}
    /\ stats.redisWins = 1
    /\ LiveTie
    /\ redisWins = 1
    /\ dragonflyWins = 0

\* C6: calling the comparator again on the same results gives the same rows
\* (winners) and the same win counts, ties included
C6_SameOutcomeTwice == runs >= 2 => table = prevTable /\ stats = prevStats

C6_Witness ==
    /\ runs = 2
    /\ TiedRows # {}
    /\ stats.redisWins >= 1
    /\ stats.dragonflyWins >= 1

\* C7: every speedup ratio the comparator computes is a defined number that
\* is at least 1
C7_RatioDefined ==
    \A r \in Rows : r.ratio.kind = "fin" /\ r.ratio.num >= r.ratio.den

----------------------------------------------------------------------------
\* Claims about runBenchmarks (Spec)

\* C9: the pool of the Redis run is closed before the Dragonfly run of the
\* same test opens a connection, and a test starts only when the tests before
\* it have finished on both endpoints
C9_StrictlySequential ==
    /\ \A c \in conns : c.inv = inv /\ c.port = port
    /\ rstate # "idle" =>
         /\ Len(results) = test - 1
         /\ scenario = Order[test]
         /\ port = REDIS_PORT => inv = 2 * test - 1 /\ redisResult = NoResult
         /\ port = DRAGONFLY_PORT =>
              /\ inv = 2 * test
              /\ redisResult.duration > 0
              /\ redisResult.totalOps = TotalOps(scenario, params)

C9_Witness ==
    /\ test = 2
    /\ port = DRAGONFLY_PORT
    /\ rstate = "measure"
    /\ Cardinality(conns) = 2
    /\ Len(results) = 1

----------------------------------------------------------------------------
\* Claims about failures

\* C11: when a command a runner has sent is answered with an error, directly
\* or inside a pipeline, the runner fails; after that no further measured
\* operation is issued, no further runner is called, and no comparison table
\* is printed
C11_FailFast ==
    [][/\ errors' > errors => rstate' = "failed"
       /\ rstate = "failed" => measuredOps' = measuredOps
       /\ errors > 0 => inv' = inv /\ runs' = runs]_vars

\* the invocation has failed in createClients, at a connect()
ConnectFailed == rstate = "failed" /\ connected < PoolSize(scenario, params)

\* C12: in the batch report a connection that cannot be established, at
\* startup or while a runner creates its pool, ends the run with a non-zero
\* exit status; a failure at startup does so before any cleanup or runner
\* command is sent
C12_ConnectFailureExitsNonZero ==
    /\ pc = "exited" => exitCode > 0 /\ inv = 0 /\ cpat = 1 /\ cstep = "scan"
    /\ (pc = "rejected" /\ ConnectFailed) => exitCode > 0

----------------------------------------------------------------------------
\* Claims about the keys on the endpoints

DeclaredPrefixes == {"scan", "bulk", "leaderboard", "mixed", "counter", "list", "hash"}

\* the keys of endpoint e that fall under a declared prefix
Declared(e) == {k \in DOMAIN store[e] : k.prefix \in DeclaredPrefixes}

\* C14: once runBenchmarks has called cleanup on an endpoint and the call has
\* returned, the endpoint holds no key under scan:, bulk:, leaderboard:,
\* mixed:, counter:, list: or hash: until a runner writes to it again; and
\* every key the six runners write is under one of these prefixes
C14_CleanupLeavesNothing ==
    /\ pc \in {"cleanDragonfly", "finalDragonfly"} => Declared(REDIS_PORT) = {}
    /\ pc = "done" => Declared(REDIS_PORT) = {} /\ Declared(DRAGONFLY_PORT) = {}
    /\ \A e \in Ports : DOMAIN store[e] = Declared(e)

C14_Witness ==
    /\ pc = "finalDragonfly"
    /\ Len(results) = 6
    /\ store[REDIS_PORT] = EmptyKeys
    /\ {ScanKey(0), BulkKey(0, 1), LeaderboardKey, MixedKey(1, 0, 49), CounterKey(1),
        ListKey(0), HashKey(0)} \subseteq DOMAIN store[DRAGONFLY_PORT]

\* the runner has gone past its population phase
PastSetup == rstate \in {"measure", "stopped", "closed", "returned"}

\* C15: on an endpoint whose scan namespace was empty and which executes the
\* commands it is sent, the population phase of the scan runner called with
\* keysToCreate = K leaves exactly the K keys scan:key:0 .. scan:key:K-1,
\* whether or not K is a multiple of the pipeline size, and the runner
\* returns totalOps = numClients * 10 whatever K is (8 clients, 100,000 keys: 80)
C15_PopulationLeavesKKeys ==
    /\ (scenario = "scan" /\ PastSetup /\ errors = 0) =>
         /\ Matching(store[port], "scan") =
              {ScanKey(i) : i \in 0..(params.keysToCreate - 1)}
         /\ Cardinality(Matching(store[port], "scan")) = params.keysToCreate
    /\ (scenario = "scan" /\ Finished) => result.totalOps = params.numClients * 10
    /\ Returned("scan", [numClients |-> 8, iterations |-> 0, keysToCreate |-> 100000,
                         setSize |-> 0, batchSize |-> 0], 1).totalOps = 80

C15_Witness ==
    /\ scenario = "scan"
    /\ Finished
    /\ errors = 0
    /\ params.keysToCreate = MaxKeys
    /\ params.keysToCreate > PopulateBatch
    /\ DOMAIN store[port] = {ScanKey(i) : i \in 0..(MaxKeys - 1)}
    /\ result.totalOps = 20

\* the keys client index c of the mixed workload writes
WrittenBy(c, p) ==
    {MixedKey(c, q, i) : q \in 0..(p.iterations - 1), i \in 0..(MixedReps - 1)}
      \cup {CounterKey(c), ListKey(c), HashKey(c)}

\* repetitions of client i's pipelines the server has executed so far
RepsDone(i) == clients[i].iter * MixedReps + served[i]

\* C16: in the mixed workload no two clients write the same key, so on an
\* endpoint that was clean and executes the commands it is sent, what a
\* client has written depends on its own progress only; when the runner
\* returns, for every client index c, counter:c is P*50, list:c holds P*50
\* items, hash:c has exactly the fields field-0 .. field-49 and every key
\* mixed:c:p:i exists, whatever the interleaving was
C16_MixedIsOrderIndependent ==
    (scenario = "mixed" /\ errors = 0) =>
      /\ \A i, j \in DOMAIN clients :
           i # j => WrittenBy(i - 1, params) \cap WrittenBy(j - 1, params) = {}
      /\ \A i \in DOMAIN clients :
           IF RepsDone(i) = 0
           THEN DOMAIN store[port] \cap WrittenBy(i - 1, params) = {}
           ELSE /\ store[port][CounterKey(i - 1)] = StringValue(RepsDone(i))
                /\ store[port][ListKey(i - 1)] = ListValue(RepsDone(i))
                /\ store[port][HashKey(i - 1)].fields \subseteq 0..(MixedReps - 1)
      /\ Finished =>
           /\ DOMAIN store[port] =
                UNION {WrittenBy(i - 1, params) : i \in DOMAIN clients}
           /\ \A i \in DOMAIN clients :
                /\ store[port][CounterKey(i - 1)].n = params.iterations * 50
                /\ store[port][ListKey(i - 1)].n = params.iterations * 50
                /\ store[port][HashKey(i - 1)] = SetValue("hash", 0..49)
                /\ \A q \in 0..(params.iterations - 1) : \A k \in 0..49 :
                     store[port][MixedKey(i - 1, q, k)] = StringValue(0)

C16_Witness ==
    /\ scenario = "mixed"
    /\ Finished
    /\ errors = 0
    /\ params.numClients = 2
    /\ params.iterations = 2
    /\ store[port][CounterKey(1)].n = 100
    /\ store[port][ListKey(0)].n = 100
    /\ Cardinality(DOMAIN store[port]) = 206

----------------------------------------------------------------------------
\* Claims about the run summary

\* the rows DragonflyDB has won, in table order
WonRows == SelectSeq(table, LAMBDA r : r.winner = "DragonflyDB")

\* C17: for every results map the summary printComparisonTable returns has
\* dragonflyWins + redisWins = totalTests = the number of entries, and its
\* speedup list holds one ratio for each test DragonflyDB has won and none
\* for the others; printBlogSummary computes the mean and the maximum only
\* when that list is not empty
C17_SummaryInvariants ==
    runs > 0 =>
      /\ stats.dragonflyWins + stats.redisWins = stats.totalTests
      /\ stats.totalTests = Len(results)
      /\ Len(stats.dragonflySpeedups) = stats.dragonflyWins
      /\ stats.dragonflySpeedups = [i \in 1..Len(WonRows) |-> WonRows[i].ratio]
      /\ summary.printed <=> Len(stats.dragonflySpeedups) > 0
      /\ summary.printed =>
           /\ summary.avgSpeedup.kind \in {"fin", "inf"}
           /\ summary.maxSpeedup.kind \in {"fin", "inf"}
           /\ \E i \in DOMAIN stats.dragonflySpeedups :
                summary.maxSpeedup = stats.dragonflySpeedups[i]

C17_Witness ==
    /\ runs > 0
    /\ stats.totalTests = 2
    /\ stats.dragonflyWins = 1
    /\ stats.redisWins = 1
    /\ table[1].winner = "Redis"
    /\ summary.printed
    /\ summary.maxSpeedup = stats.dragonflySpeedups[1]

----------------------------------------------------------------------------
\* Claims about the live dashboard (SpecLive)

\* C13: once the dashboard has reported a failure, of a connection at startup
\* or of an update's benchmark call, it starts no further iteration
C13_NoIterationAfterFailure ==
    [][logLine.kind \in {"connect error", "error"} => fires' = fires]_vars

C18_Counters ==
    /\ redisWins + dragonflyWins = iteration
    /\ Len(redisData) = Len(dragonflyData)
    /\ Len(redisData) <= ChartPoints
    /\ Len(redisData) <= iteration

C18_Sample ==
    \/ UNCHANGED <<iteration, redisTotal, dragonflyTotal, redisWins, dragonflyWins,
                   redisData, dragonflyData>>
    \/ /\ iteration' = iteration + 1
       /\ redisTotal' = redisTotal + rendered'.redisOps
       /\ dragonflyTotal' = dragonflyTotal + rendered'.dragonflyOps
       /\ redisData'[Len(redisData')] =
            [x |-> iteration', y |-> JsDiv(rendered'.redisOps, 1000)]
       /\ dragonflyData'[Len(dragonflyData')] =
            [x |-> iteration', y |-> JsDiv(rendered'.dragonflyOps, 1000)]

\* C18: in every state between two steps of the dashboard, overlapping and
\* failed update() executions included, redisWins + dragonflyWins = iteration,
\* the two chart series have the same length, which never exceeds the number
\* of points kept (20), and each step that counts an iteration adds exactly
\* one sample to redisTotal and one to dragonflyTotal
C18_DashboardCounters == []C18_Counters /\ [][C18_Sample]_vars

C18_Witness ==
    /\ iteration > ChartPoints
    /\ Len(redisData) = ChartPoints
    /\ redisData[1].x = iteration - ChartPoints + 1
    /\ redisWins >= 1
    /\ dragonflyWins >= 1
    /\ redisTotal > dragonflyTotal

\* C19: at most one update() execution is in flight at any time
C19_OneUpdateInFlight == Cardinality(updates) <= 1

=============================================================================
